---------------------------- MODULE Spec2Model ----------------------------
(***************************************************************************)
(* Model of the classroom schedule web application (src/script.js):        *)
(* spreadsheet ingestion, the single localStorage slot 'schedule', and the *)
(* selector / timetable rendering; and of its service worker              *)
(* (src/service-worker.js): install, activate and fetch.                   *)
(*                                                                         *)
(* Conventions.                                                            *)
(*  - A JavaScript string is a sequence of one-character strings.          *)
(*  - A JavaScript number is a record [nan, v]: NaN or the integer v.      *)
(*  - A Date's time value is counted in minutes (every time value the      *)
(*    program builds is a whole number of minutes), so that the values fit *)
(*    the model checker's integers.                                        *)
(*  - The Cyrillic literals of the source are written in ASCII; each       *)
(*    definition names the literal it stands for.                          *)
(***************************************************************************)
EXTENDS Integers, Sequences, FiniteSets

VARIABLES
    tz,        \* local timezone offset of the machine, minutes east of UTC
    store,     \* the localStorage slot 'schedule'
    dom,       \* the DOM elements the script writes and reads
    uploads,   \* the FileReader of every upload started, by start order
    last,      \* the handler that ran last, and how it ended
    caches,    \* the origin's CacheStorage: its caches in creation order
    workers,   \* the service worker registration: the old and the new worker
    fetches    \* the fetch events the workers handle, and their answers

\* The page (src/script.js) and the service worker (src/service-worker.js).
appvars == <<tz, store, dom, uploads, last>>

swvars == <<caches, workers, fetches>>

vars == <<tz, store, dom, uploads, last, caches, workers, fetches>>

---------------------------------------------------------------------------
(* Strings                                                                 *)

\* The characters used by the inputs, in ascending UTF-16 code unit order.
Alphabet ==
    <<" ", "\"", "&", "'", "-", ".", "/",
      "0", "1", "2", "3", "4", "5", "6", "7", "8", "9",
      ":", "<", ">", "A", "B", "N", "a", "x">>

\* The code unit order of a character (its position in Alphabet).
Code(c) == CHOOSE i \in 1..Len(Alphabet) : Alphabet[i] = c

IsDigit(c) == c \in {"0", "1", "2", "3", "4", "5", "6", "7", "8", "9"}

DigitVal(c) == Code(c) - Code("0")

DigitChar(n) == Alphabet[Code("0") + n]

\* a < b in the order Array.prototype.sort uses without a comparator.
RECURSIVE LexLess(_, _)
LexLess(a, b) ==
    IF b = <<>> THEN FALSE
    ELSE IF a = <<>> THEN TRUE
    ELSE IF Head(a) = Head(b) THEN LexLess(Tail(a), Tail(b))
    ELSE Code(Head(a)) < Code(Head(b))

\* String.prototype.trim (the inputs use the space as their only whitespace).
RECURSIVE TrimStart(_)
TrimStart(s) ==
    IF s # <<>> /\ Head(s) = " " THEN TrimStart(Tail(s)) ELSE s

RECURSIVE TrimEnd(_)
TrimEnd(s) ==
    IF s # <<>> /\ s[Len(s)] = " " THEN TrimEnd(SubSeq(s, 1, Len(s) - 1)) ELSE s

Trim(s) == TrimEnd(TrimStart(s))

\* String.prototype.split on a set of one-character separators.
RECURSIVE SplitFrom(_, _, _)
SplitFrom(s, seps, cur) ==
    IF s = <<>> THEN <<cur>>
    ELSE IF Head(s) \in seps THEN <<cur>> \o SplitFrom(Tail(s), seps, <<>>)
    ELSE SplitFrom(Tail(s), seps, Append(cur, Head(s)))

Split(s, seps) == SplitFrom(s, seps, <<>>)

---------------------------------------------------------------------------
(* Numbers                                                                 *)

Num(v) == [nan |-> FALSE, v |-> v]

NaN == [nan |-> TRUE, v |-> 0]

RECURSIVE DigitsValue(_, _)
DigitsValue(s, acc) ==
    IF s # <<>> /\ IsDigit(Head(s))
    THEN DigitsValue(Tail(s), 10 * acc + DigitVal(Head(s)))
    ELSE acc

\* parseInt(s) and parseInt(s, 10): leading whitespace, an optional sign, the
\* longest prefix of decimal digits; NaN when there is no digit.
parseInt(s) ==
    LET t   == TrimStart(s)
        neg == t # <<>> /\ Head(t) = "-"
        u   == IF neg THEN Tail(t) ELSE t
    IN  IF u = <<>> \/ ~IsDigit(Head(u)) THEN NaN
        ELSE Num(IF neg THEN 0 - DigitsValue(u, 0) ELSE DigitsValue(u, 0))

RECURSIVE NatToString(_)
NatToString(n) ==
    IF n < 10 THEN <<DigitChar(n)>>
    ELSE Append(NatToString(n \div 10), DigitChar(n % 10))

\* Number.prototype.toString of an integer or NaN.
NumToString(x) ==
    IF x.nan THEN <<"N", "a", "N">>
    ELSE IF x.v < 0 THEN <<"-">> \o NatToString(0 - x.v)
    ELSE NatToString(x.v)

\* String.prototype.padStart(n, '0').
RECURSIVE padStart(_, _)
padStart(s, n) == IF Len(s) >= n THEN s ELSE padStart(<<"0">> \o s, n)

\* x + 1 and x - 1 on a JavaScript number.
Plus(x, k) == IF x.nan THEN NaN ELSE Num(x.v + k)

---------------------------------------------------------------------------
(* Dates: the Date objects of lines 98-117                                 *)

MinutesPerDay == 1440

\* Day number (days since 1970-01-01) of a civil date of the proleptic
\* Gregorian calendar, as ECMAScript's MakeDay computes it for month 1..12.
DaysFromCivil(y, m, d) ==
    LET yy  == IF m <= 2 THEN y - 1 ELSE y
        era == yy \div 400
        yoe == yy - era * 400
        mp  == (m + 9) % 12
        doy == (153 * mp + 2) \div 5 + d - 1
        doe == yoe * 365 + yoe \div 4 - yoe \div 100 + doy
    IN  era * 146097 + doe - 719468

\* The civil date of a day number: ECMAScript's YearFromTime, MonthFromTime
\* and DateFromTime.
CivilFromDays(z) ==
    LET zz  == z + 719468
        era == zz \div 146097
        doe == zz - era * 146097
        yoe == (doe - doe \div 1460 + doe \div 36524 - doe \div 146096) \div 365
        doy == doe - (365 * yoe + yoe \div 4 - yoe \div 100)
        mp  == (5 * doy + 2) \div 153
        d   == doy - (153 * mp + 2) \div 5 + 1
        m   == IF mp < 10 THEN mp + 3 ELSE mp - 9
        y   == yoe + era * 400 + (IF m <= 2 THEN 1 ELSE 0)
    IN  [y |-> y, m |-> m, d |-> d]

\* MakeDay(year, month, date): a month outside 0..11 carries into the year
\* and a day outside the month carries into the neighbouring months.
MakeDay(y, m0, d) ==
    DaysFromCivil(y + (m0 \div 12), (m0 % 12) + 1, 1) + d - 1

\* The Date constructor and Date.UTC read a year 0..99 as 1900 + year.
MakeFullYear(y) == IF 0 <= y /\ y <= 99 THEN 1900 + y ELSE y

InvalidDate == [nan |-> TRUE, t |-> 0]

\* new Date(Date.UTC(year, month, day)): midnight UTC of that day.
DateUTC(y, m0, d) ==
    [nan |-> FALSE, t |-> MakeDay(MakeFullYear(y), m0, d) * MinutesPerDay]

\* new Date(year, month, day) with JavaScript numbers: midnight LOCAL time
\* of that day, at timezone offset zone.
NewDateLocal(y, m0, d, zone) ==
    IF y.nan \/ m0.nan \/ d.nan THEN InvalidDate
    ELSE [nan |-> FALSE,
          t |-> MakeDay(MakeFullYear(y.v), m0.v, d.v) * MinutesPerDay - zone]

DaysInMonth(y, m) == DaysFromCivil(IF m = 12 THEN y + 1 ELSE y,
                                   IF m = 12 THEN 1 ELSE m + 1, 1)
                     - DaysFromCivil(y, m, 1)

AllDigits(s) == \A i \in 1..Len(s) : IsDigit(s[i])

\* new Date(string) for the strings the inputs use: the ISO date-only form
\* YYYY-MM-DD of a valid calendar date is midnight UTC of that day (ECMAScript
\* Date Time String Format); a string with no digit in it is an Invalid Date.
NewDateParse(s) ==
    LET p == Split(s, {"-"})
        y == DigitsValue(p[1], 0)
        m == DigitsValue(p[2], 0)
        d == DigitsValue(p[3], 0)
    IN  IF /\ Len(p) = 3
           /\ Len(p[1]) = 4 /\ Len(p[2]) = 2 /\ Len(p[3]) = 2
           /\ AllDigits(p[1]) /\ AllDigits(p[2]) /\ AllDigits(p[3])
           /\ m \in 1..12
           /\ d \in 1..DaysInMonth(y, m)
        THEN [nan |-> FALSE, t |-> DaysFromCivil(y, m, d) * MinutesPerDay]
        ELSE InvalidDate

\* The local calendar date the getters getFullYear, getMonth, getDate read.
LocalCivil(date, zone) == CivilFromDays((date.t + zone) \div MinutesPerDay)

getFullYear(date, zone) ==
    IF date.nan THEN NaN ELSE Num(LocalCivil(date, zone).y)

getMonth(date, zone) ==
    IF date.nan THEN NaN ELSE Num(LocalCivil(date, zone).m - 1)

getDate(date, zone) ==
    IF date.nan THEN NaN ELSE Num(LocalCivil(date, zone).d)

---------------------------------------------------------------------------
(* Ingestion: parseScheduleFile's onload handler, lines 65-138             *)

\* A cell of the 2-D array sheet_to_json returns: a string or a number;
\* UndefinedCell is what indexing a row past its end or by undefined gives.
StrCell(s) == [t |-> "string", s |-> s, n |-> 0]

NumCell(n) == [t |-> "number", s |-> <<>>, n |-> n]

UndefinedCell == [t |-> "undefined", s |-> <<>>, n |-> 0]

\* The header labels, in ASCII: 'Дата', 'Время начала', 'Время окончания',
\* 'День недели', 'Дисциплина', 'Вид работы', 'Контингент', 'Корпус',
\* 'Аудитория', 'Преподаватель'.
LblDate       == <<"D", "a", "t", "e">>
LblStart      == <<"S", "t", "a", "r", "t">>
LblEnd        == <<"E", "n", "d">>
LblDayOfWeek  == <<"D", "a", "y">>
LblDiscipline == <<"D", "i", "s", "c">>
LblType       == <<"T", "y", "p", "e">>
LblGroup      == <<"G", "r", "o", "u", "p">>
LblBuilding   == <<"B", "l", "d", "g">>
LblRoom       == <<"R", "o", "o", "m">>
LblTeacher    == <<"T", "e", "a", "c", "h">>

\* row.includes(label): strict equality with a string.
Includes(row, label) ==
    \E i \in 1..Len(row) : row[i].t = "string" /\ row[i].s = label

IsHeaderRow(row) == Includes(row, LblDate) /\ Includes(row, LblStart)

\* rows.findIndex(...), 1-based; 0 stands for -1.
HeaderIndex(rows) ==
    LET S == {i \in 1..Len(rows) : IsHeaderRow(rows[i])}
    IN  IF S = {} THEN 0 ELSE CHOOSE i \in S : \A j \in S : i <= j

\* headerMap that keeps the first column of a key: a later column does not
\* overwrite it.
HeaderMapKeepsFirst(headerRow, key) ==
    LET S == {i \in 1..Len(headerRow) :
                 /\ headerRow[i].t = "string"
                 /\ Len(Trim(headerRow[i].s)) > 0
                 /\ Trim(headerRow[i].s) = key}
    IN  IF S = {} THEN 0 ELSE CHOOSE i \in S : \A j \in S : i <= j

\* headerMap[key] after the forEach of lines 84-88, 1-based; 0 stands for
\* undefined. Every column whose trimmed cell is the key assigns its index,
\* in column order, so the last assignment stays.
HeaderMap(headerRow, key) ==
    LET S == {i \in 1..Len(headerRow) :
                 /\ headerRow[i].t = "string"
                 /\ Len(Trim(headerRow[i].s)) > 0
                 /\ Trim(headerRow[i].s) = key}
    IN  IF S = {} THEN 0 ELSE CHOOSE i \in S : \A j \in S : j <= i

\* row[idx]
CellAt(row, idx) ==
    IF idx = 0 \/ idx > Len(row) THEN UndefinedCell ELSE row[idx]

\* JavaScript truthiness of a cell.
Truthy(c) ==
    \/ c.t = "string" /\ c.s # <<>>
    \/ c.t = "number" /\ c.n # 0

\* cell.toString()
CellToString(c) == IF c.t = "number" THEN NumToString(Num(c.n)) ELSE c.s

\* (row[headerMap[key]] || '').toString().trim()
Field(row, headerRow, key) ==
    LET c == CellAt(row, HeaderMap(headerRow, key))
    IN  IF Truthy(c) THEN Trim(CellToString(c)) ELSE <<>>

\* Lines 97-113: the Date object of a truthy date cell.
DateObj(rawDate, zone) ==
    IF rawDate.t = "number"
    THEN LET epoch == DateUTC(1899, 11, 30)
         IN  [nan |-> FALSE, t |-> epoch.t + rawDate.n * MinutesPerDay]
    ELSE LET parts == Split(rawDate.s, {".", "/"})
         IN  IF Len(parts) = 3
             THEN NewDateLocal(parseInt(parts[3]),
                               Plus(parseInt(parts[2]), -1),
                               parseInt(parts[1]), zone)
             ELSE NewDateParse(rawDate.s)

\* Lines 114-117: isoDate.
IsoDate(dateObj, zone) ==
    LET yyyy == padStart(NumToString(getFullYear(dateObj, zone)), 4)
        mm   == padStart(NumToString(Plus(getMonth(dateObj, zone), 1)), 2)
        dd   == padStart(NumToString(getDate(dateObj, zone)), 2)
    IN  yyyy \o <<"-">> \o mm \o <<"-">> \o dd

\* Lines 94-128: the event pushed for one data row.
EventOfRow(row, headerRow, zone) ==
    LET rawDate == CellAt(row, HeaderMap(headerRow, LblDate))
    IN  [date       |-> IsoDate(DateObj(rawDate, zone), zone),
         start      |-> Field(row, headerRow, LblStart),
         end        |-> Field(row, headerRow, LblEnd),
         dayOfWeek  |-> Field(row, headerRow, LblDayOfWeek),
         discipline |-> Field(row, headerRow, LblDiscipline),
         type       |-> Field(row, headerRow, LblType),
         group      |-> Field(row, headerRow, LblGroup),
         building   |-> Field(row, headerRow, LblBuilding),
         room       |-> Field(row, headerRow, LblRoom),
         teacher    |-> Field(row, headerRow, LblTeacher)]

\* Line 90: a row after the header is kept when it is non-empty and its date
\* cell is truthy (line 95 repeats the test).
KeepsRow(row, headerRow) ==
    Len(row) > 0 /\ Truthy(CellAt(row, HeaderMap(headerRow, LblDate)))

RECURSIVE EventsFrom(_, _, _, _)
EventsFrom(rows, i, headerRow, zone) ==
    IF i > Len(rows) THEN <<>>
    ELSE (IF KeepsRow(rows[i], headerRow)
          THEN <<EventOfRow(rows[i], headerRow, zone)>>
          ELSE <<>>)
         \o EventsFrom(rows, i + 1, headerRow, zone)

\* Lines 72-129 on the rows of the first sheet: the events array.
Events(rows, zone) ==
    LET h == HeaderIndex(rows)
    IN  EventsFrom(rows, h + 1, rows[h], zone)

---------------------------------------------------------------------------
(* The localStorage slot 'schedule' and its JSON text                      *)

\* getItem returns null: the slot is absent.
NoItem == [kind |-> "null", items |-> <<>>]

\* JSON.stringify(events): the text of an array of entry objects.
JSONstringify(events) == [kind |-> "array", items |-> events]

\* Texts that are no serialized entry list: the empty string, a text that is
\* no JSON ('{'), the JSON object '{}', and the JSON array '[null]'.
EmptyText == [kind |-> "empty", items |-> <<>>]
GarbageText == [kind |-> "garbage", items |-> <<>>]
ObjectText == [kind |-> "object", items |-> <<>>]
NullArrayText == [kind |-> "nullArray", items |-> <<>>]

CorruptTexts == {EmptyText, GarbageText, ObjectText, NullArrayText}

\* !stored: null or the empty string.
Falsy(stored) == stored.kind \in {"null", "empty"}

\* JSON.parse(stored) throws a SyntaxError.
ParseThrows(stored) == stored.kind \in {"empty", "garbage"}

\* Array.isArray(JSON.parse(stored))
IsArray(stored) == stored.kind \in {"array", "nullArray"}

---------------------------------------------------------------------------
(* HTML text                                                               *)

RECURSIVE ReplaceAll(_, _, _)
ReplaceAll(s, c, rep) ==
    IF s = <<>> THEN <<>>
    ELSE (IF Head(s) = c THEN rep ELSE <<Head(s)>>) \o ReplaceAll(Tail(s), c, rep)

EntAmp  == <<"&", "a", "m", "p", ";">>
EntLt   == <<"&", "l", "t", ";">>
EntGt   == <<"&", "g", "t", ";">>
EntQuot == <<"&", "q", "u", "o", "t", ";">>
EntApos == <<"&", "#", "3", "9", ";">>

\* Lines 274-281: five replacements, '&' first.
escapeHtml(str) ==
    ReplaceAll(ReplaceAll(ReplaceAll(ReplaceAll(ReplaceAll(
        str, "&", EntAmp), "<", EntLt), ">", EntGt), "\"", EntQuot), "'", EntApos)

StartsWith(s, pre) == Len(s) >= Len(pre) /\ SubSeq(s, 1, Len(pre)) = pre

Drop(s, n) == SubSeq(s, n + 1, Len(s))

\* What the HTML parser makes of the text between value=" and the next
\* double quote: the attribute ends at the first raw double quote and the
\* character references in it are decoded.
RECURSIVE AttrValue(_)
AttrValue(m) ==
    IF m = <<>> \/ Head(m) = "\"" THEN <<>>
    ELSE IF StartsWith(m, EntAmp) THEN <<"&">> \o AttrValue(Drop(m, Len(EntAmp)))
    ELSE IF StartsWith(m, EntLt) THEN <<"<">> \o AttrValue(Drop(m, Len(EntLt)))
    ELSE IF StartsWith(m, EntGt) THEN <<">">> \o AttrValue(Drop(m, Len(EntGt)))
    ELSE IF StartsWith(m, EntQuot) THEN <<"\"">> \o AttrValue(Drop(m, Len(EntQuot)))
    ELSE IF StartsWith(m, EntApos) THEN <<"'">> \o AttrValue(Drop(m, Len(EntApos)))
    ELSE <<Head(m)>> \o AttrValue(Tail(m))

---------------------------------------------------------------------------
(* Arrays: Set, sort                                                       *)

\* Array.from(new Set(seq)): the distinct values in order of first occurrence.
RECURSIVE Distinct(_)
Distinct(seq) ==
    IF seq = <<>> THEN <<>>
    ELSE LET init == Distinct(SubSeq(seq, 1, Len(seq) - 1))
             x    == seq[Len(seq)]
         IN  IF \E i \in 1..Len(init) : init[i] = x THEN init ELSE Append(init, x)

RECURSIVE InsertLex(_, _)
InsertLex(sorted, x) ==
    IF sorted = <<>> THEN <<x>>
    ELSE IF LexLess(x, Head(sorted)) THEN <<x>> \o sorted
    ELSE <<Head(sorted)>> \o InsertLex(Tail(sorted), x)

\* Array.prototype.sort() of strings without a comparator.
RECURSIVE SortLex(_)
SortLex(seq) ==
    IF seq = <<>> THEN <<>>
    ELSE InsertLex(SortLex(SubSeq(seq, 1, Len(seq) - 1)), seq[Len(seq)])

\* Lines 238-240: ah * 60 + am of a start string; a missing or non-numeric
\* part makes it NaN.
TimeMinutes(a) ==
    LET p  == Split(a, {":"})
        ah == parseInt(p[1])
        am == IF Len(p) >= 2 THEN parseInt(p[2]) ELSE NaN
    IN  IF ah.nan \/ am.nan THEN NaN ELSE Num(ah.v * 60 + am.v)

\* The comparator of lines 237-241; sort reads a NaN result as 0.
CompareTimes(a, b) ==
    LET ka == TimeMinutes(a)
        kb == TimeMinutes(b)
    IN  IF ka.nan \/ kb.nan THEN 0 ELSE ka.v - kb.v

\* Whether the comparator orders the strings consistently (ECMAScript's
\* "consistent comparator"): no string has a NaN key, or all compare equal.
ConsistentTimes(seq) ==
    \/ \A i \in 1..Len(seq) : ~TimeMinutes(seq[i]).nan
    \/ \A i, j \in 1..Len(seq) : CompareTimes(seq[i], seq[j]) = 0

RECURSIVE InsertTime(_, _)
InsertTime(sorted, x) ==
    IF sorted = <<>> THEN <<x>>
    ELSE IF CompareTimes(Head(sorted), x) > 0 THEN <<x>> \o sorted
    ELSE <<Head(sorted)>> \o InsertTime(Tail(sorted), x)

\* The stable sort by the comparator.
RECURSIVE StableSortTimes(_)
StableSortTimes(seq) ==
    IF seq = <<>> THEN <<>>
    ELSE InsertTime(StableSortTimes(SubSeq(seq, 1, Len(seq) - 1)), seq[Len(seq)])

Permutations(seq) ==
    {p \in [1..Len(seq) -> {seq[i] : i \in 1..Len(seq)}] :
        \A i, j \in 1..Len(seq) : p[i] = p[j] => i = j}

\* sort(comparator) of distinct start strings: the stable sort when the
\* comparator is consistent; otherwise the order is implementation-defined,
\* any arrangement of the elements.
SortTimes(seq) ==
    IF ConsistentTimes(seq) THEN {StableSortTimes(seq)} ELSE Permutations(seq)

---------------------------------------------------------------------------
(* The view: initSchedule and renderSchedule                               *)

\* 'Загрузите файл расписания.'
StatusUpload == "Upload a schedule file."

\* 'Файл расписания не содержит данных.'
StatusNoData == "The schedule file contains no data."

\* 'Неизвестный корпус'
UnknownBuilding == <<"N", "/", "A">>

\* '<td class="free">Свободно</td>'
FreeCell == [class |-> "free", subject |-> <<>>, group |-> <<>>]

\* innerHTML = ''
EmptyHTML == [kind |-> "empty", th |-> <<>>, rows |-> <<>>]

\* '<p>Нет занятий для выбранной даты.</p>'
NoClassesHTML == [kind |-> "noClasses", th |-> <<>>, rows |-> <<>>]

\* The elements as the static page gives them, before any handler has run:
\* the display of #controls and #replaceBtn is whatever the stylesheet says.
StaticPage ==
    [status         |-> "",
     controls       |-> "stylesheet",
     replaceBtn     |-> "stylesheet",
     schedule       |-> EmptyHTML,
     buildingSelect |-> <<>>,
     dateSelect     |-> <<>>,
     buildingIdx    |-> 0,
     dateIdx        |-> 0]

\* select.value: the value attribute of the selected option, '' without one.
SelectValue(options, idx) ==
    IF idx = 0 \/ idx > Len(options) THEN <<>> ELSE AttrValue(options[idx].value)

\* Line 229: events.filter(...)
RECURSIVE DailyEvents(_, _, _)
DailyEvents(events, building, date) ==
    IF events = <<>> THEN <<>>
    ELSE (IF Head(events).building = building /\ Head(events).date = date
          THEN <<Head(events)>> ELSE <<>>)
         \o DailyEvents(Tail(events), building, date)

\* The cell showing the last entry of the room and start time, as a loop
\* that keeps overwriting its match would.
GridCellShowsLast(dailyEvents, room, time) ==
    LET S == {i \in 1..Len(dailyEvents) :
                 dailyEvents[i].room = room /\ dailyEvents[i].start = time}
    IN  IF S = {} THEN FreeCell
        ELSE LET ev == dailyEvents[CHOOSE i \in S : \A j \in S : j <= i]
             IN  [class   |-> "occupied",
                  subject |-> escapeHtml(ev.discipline),
                  group   |-> escapeHtml(ev.group)]

\* Lines 252-259: the cell of a room and a start time.
GridCell(dailyEvents, room, time) ==
    LET S == {i \in 1..Len(dailyEvents) :
                 dailyEvents[i].room = room /\ dailyEvents[i].start = time}
    IN  IF S = {} THEN FreeCell
        ELSE LET ev == dailyEvents[CHOOSE i \in S : \A j \in S : i <= j]
             IN  [class   |-> "occupied",
                  subject |-> escapeHtml(ev.discipline),
                  group   |-> escapeHtml(ev.group)]

\* Line 236
Rooms(dailyEvents) ==
    SortLex(Distinct([i \in 1..Len(dailyEvents) |-> dailyEvents[i].room]))

\* The distinct start values of line 237, before the sort.
Starts(dailyEvents) ==
    Distinct([i \in 1..Len(dailyEvents) |-> dailyEvents[i].start])

\* Lines 243-263: the table markup, as the texts inserted into it: the header
\* cell of every room, and per start time the row label, the time and the cells.
TableHTML(dailyEvents, times) ==
    LET rooms == Rooms(dailyEvents)
    IN  [kind |-> "table",
         th   |-> [j \in 1..Len(rooms) |-> rooms[j]],
         rows |-> [i \in 1..Len(times) |->
                      [label |-> NumToString(Num(i)),
                       time  |-> times[i],
                       cells |-> [j \in 1..Len(rooms) |->
                                     GridCell(dailyEvents, rooms[j], times[i])]]]]

\* Lines 220-266. The outcomes: the DOM left behind and whether an exception
\* left the function.
renderSchedule(stored, d) ==
    IF Falsy(stored) THEN {[dom |-> d, threw |-> FALSE]}
    ELSE IF stored.kind # "array"
    THEN \* JSON.parse throws, or events.filter is no function, or ev is null
         {[dom |-> d, threw |-> TRUE]}
    ELSE LET building    == SelectValue(d.buildingSelect, d.buildingIdx)
             date        == SelectValue(d.dateSelect, d.dateIdx)
             dailyEvents == DailyEvents(stored.items, building, date)
         IN  IF dailyEvents = <<>>
             THEN {[dom |-> [d EXCEPT !.schedule = NoClassesHTML, !.status = ""],
                    threw |-> FALSE]}
             ELSE {[dom |-> [d EXCEPT !.schedule = TableHTML(dailyEvents, times),
                                      !.status = ""],
                    threw |-> FALSE] : times \in SortTimes(Starts(dailyEvents))}

\* The four assignments of lines 158-161, 170-173 and 177-180.
ShowNothing(d, text) ==
    [d EXCEPT !.status = text, !.controls = "none",
              !.replaceBtn = "none", !.schedule = EmptyHTML]

\* Lines 191-198
BuildingOptions(events) ==
    LET buildings == SortLex(Distinct([i \in 1..Len(events) |-> events[i].building]))
    IN  [i \in 1..Len(buildings) |->
            [value |-> escapeHtml(buildings[i]),
             label |-> escapeHtml(IF buildings[i] = <<>> THEN UnknownBuilding
                                  ELSE buildings[i])]]

\* Lines 199-201
DateOptions(events) ==
    LET dates == SortLex(Distinct([i \in 1..Len(events) |-> events[i].date]))
    IN  [i \in 1..Len(dates) |->
            [value |-> dates[i], label |-> escapeHtml(dates[i])]]

\* initSchedule adding the options to those the selectors hold already
\* (appendChild in place of innerHTML =).
initScheduleKeepsOptions(stored, d) ==
    IF Falsy(stored)
    THEN {[store |-> stored, dom |-> ShowNothing(d, StatusUpload), threw |-> FALSE]}
    ELSE IF ParseThrows(stored)
    THEN {[store |-> NoItem, dom |-> ShowNothing(d, StatusUpload), threw |-> FALSE]}
    ELSE IF ~IsArray(stored) \/ (stored.kind = "array" /\ stored.items = <<>>)
    THEN {[store |-> stored, dom |-> ShowNothing(d, StatusNoData), threw |-> FALSE]}
    ELSE IF stored.kind = "nullArray"
    THEN {[store |-> stored, dom |-> [d EXCEPT !.replaceBtn = "inline-block"],
           threw |-> TRUE]}
    ELSE LET filled == [d EXCEPT !.replaceBtn = "inline-block",
                                 !.buildingSelect =
                                     d.buildingSelect \o BuildingOptions(stored.items),
                                 !.dateSelect =
                                     d.dateSelect \o DateOptions(stored.items),
                                 !.buildingIdx = 1,
                                 !.dateIdx = 1,
                                 !.controls = "flex"]
         IN  {[store |-> stored, dom |-> r.dom, threw |-> r.threw] :
                 r \in renderSchedule(stored, filled)}

\* initSchedule taking an empty entry list for an absent slot: the slot is
\* removed and the upload prompt shown.
initScheduleEmptyIsAbsent(stored, d) ==
    IF Falsy(stored)
    THEN {[store |-> stored, dom |-> ShowNothing(d, StatusUpload), threw |-> FALSE]}
    ELSE IF ParseThrows(stored)
    THEN {[store |-> NoItem, dom |-> ShowNothing(d, StatusUpload), threw |-> FALSE]}
    ELSE IF ~IsArray(stored) \/ (stored.kind = "array" /\ stored.items = <<>>)
    THEN {[store |-> NoItem, dom |-> ShowNothing(d, StatusUpload), threw |-> FALSE]}
    ELSE IF stored.kind = "nullArray"
    THEN {[store |-> stored, dom |-> [d EXCEPT !.replaceBtn = "inline-block"],
           threw |-> TRUE]}
    ELSE LET filled == [d EXCEPT !.replaceBtn = "inline-block",
                                 !.buildingSelect = BuildingOptions(stored.items),
                                 !.dateSelect = DateOptions(stored.items),
                                 !.buildingIdx = 1,
                                 !.dateIdx = 1,
                                 !.controls = "flex"]
         IN  {[store |-> stored, dom |-> r.dom, threw |-> r.threw] :
                 r \in renderSchedule(stored, filled)}

\* Lines 150-209. The outcomes: the slot, the DOM and whether an exception
\* left the function.
initSchedule(stored, d) ==
    IF Falsy(stored)
    THEN {[store |-> stored, dom |-> ShowNothing(d, StatusUpload), threw |-> FALSE]}
    ELSE IF ParseThrows(stored)
    THEN {[store |-> NoItem, dom |-> ShowNothing(d, StatusUpload), threw |-> FALSE]}
    ELSE IF ~IsArray(stored) \/ (stored.kind = "array" /\ stored.items = <<>>)
    THEN {[store |-> stored, dom |-> ShowNothing(d, StatusNoData), threw |-> FALSE]}
    ELSE IF stored.kind = "nullArray"
    THEN \* line 184 has run when ev.building of null throws in line 186
         {[store |-> stored, dom |-> [d EXCEPT !.replaceBtn = "inline-block"],
           threw |-> TRUE]}
    ELSE LET filled == [d EXCEPT !.replaceBtn = "inline-block",
                                 !.buildingSelect = BuildingOptions(stored.items),
                                 !.dateSelect = DateOptions(stored.items),
                                 !.buildingIdx = 1,
                                 !.dateIdx = 1,
                                 !.controls = "flex"]
         IN  {[store |-> stored, dom |-> r.dom, threw |-> r.threw] :
                 r \in renderSchedule(stored, filled)}

---------------------------------------------------------------------------
(* The event handlers                                                      *)

\* Uploads started in one behaviour.
MaxUploads == 2

\* The alert of line 78 and the alert of line 136.
AlertNoHeader == "Header row not found in the file."
AlertParseError == "An error occurred while reading the file."

\* A file the user picks: ok is whether XLSX.read and sheet_to_json return
\* (a malformed workbook makes them throw), rows the 2-D array of line 72.
File(rows) == [ok |-> TRUE, rows |-> rows]

MalformedFile == [ok |-> FALSE, rows |-> <<>>]

NoUpload == [state |-> "none", file |-> MalformedFile]

Ran(handler, alert, threw) ==
    [handler |-> handler, alert |-> alert, threw |-> threw]

\* Lines 32-36 and 63-64, 139: the user picks a file; its read is started.
StartUpload(f) ==
    /\ \E i \in 1..MaxUploads :
          /\ uploads[i].state = "none"
          /\ \A j \in 1..(i - 1) : uploads[j].state # "none"
          /\ uploads' = [uploads EXCEPT ![i] = [state |-> "reading", file |-> f]]
          /\ last' = Ran("change", "", FALSE)
    /\ UNCHANGED <<tz, store, dom>>
    /\ UNCHANGED swvars

\* onload with the old schedule removed before the workbook is read.
onloadClearsFirst(f, stored, d, zone, full) ==
    IF ~f.ok
    THEN {[store |-> NoItem, dom |-> d, state |-> "parseError",
           alert |-> AlertParseError]}
    ELSE IF HeaderIndex(f.rows) = 0
    THEN {[store |-> NoItem, dom |-> d, state |-> "headerNotFound",
           alert |-> AlertNoHeader]}
    ELSE IF full
    THEN {[store |-> NoItem, dom |-> d, state |-> "parseError",
           alert |-> AlertParseError]}
    ELSE {[store |-> r.store, dom |-> r.dom,
           state |-> IF r.threw THEN "parseError" ELSE "stored",
           alert |-> IF r.threw THEN AlertParseError ELSE ""] :
             r \in initSchedule(JSONstringify(Events(f.rows, zone)), d)}

\* onload appending the new events to the stored ones instead of replacing.
onloadMerges(f, stored, d, zone, full) ==
    IF ~f.ok
    THEN {[store |-> stored, dom |-> d, state |-> "parseError",
           alert |-> AlertParseError]}
    ELSE IF HeaderIndex(f.rows) = 0
    THEN {[store |-> stored, dom |-> d, state |-> "headerNotFound",
           alert |-> AlertNoHeader]}
    ELSE IF full
    THEN {[store |-> stored, dom |-> d, state |-> "parseError",
           alert |-> AlertParseError]}
    ELSE {[store |-> r.store, dom |-> r.dom,
           state |-> IF r.threw THEN "parseError" ELSE "stored",
           alert |-> IF r.threw THEN AlertParseError ELSE ""] :
             r \in initSchedule(
                      JSONstringify((IF stored.kind = "array" THEN stored.items
                                     ELSE <<>>) \o Events(f.rows, zone)), d)}

\* onload writing the slot after every entry pushed: when the quota is hit
\* the entries written so far stay.
onloadSavesEachEntry(f, stored, d, zone, full) ==
    IF ~f.ok
    THEN {[store |-> stored, dom |-> d, state |-> "parseError",
           alert |-> AlertParseError]}
    ELSE IF HeaderIndex(f.rows) = 0
    THEN {[store |-> stored, dom |-> d, state |-> "headerNotFound",
           alert |-> AlertNoHeader]}
    ELSE IF full
    THEN {[store |-> IF Len(Events(f.rows, zone)) > 1
                     THEN JSONstringify(<<Events(f.rows, zone)[1]>>)
                     ELSE stored,
           dom |-> d, state |-> "parseError", alert |-> AlertParseError]}
    ELSE {[store |-> r.store, dom |-> r.dom,
           state |-> IF r.threw THEN "parseError" ELSE "stored",
           alert |-> IF r.threw THEN AlertParseError ELSE ""] :
             r \in initSchedule(JSONstringify(Events(f.rows, zone)), d)}

\* onload writing the text of a failure into the status element as well.
onloadShowsFailure(f, stored, d, zone, full) ==
    IF ~f.ok
    THEN {[store |-> stored, dom |-> [d EXCEPT !.status = AlertParseError],
           state |-> "parseError", alert |-> AlertParseError]}
    ELSE IF HeaderIndex(f.rows) = 0
    THEN {[store |-> stored, dom |-> [d EXCEPT !.status = AlertNoHeader],
           state |-> "headerNotFound", alert |-> AlertNoHeader]}
    ELSE IF full
    THEN {[store |-> stored, dom |-> [d EXCEPT !.status = AlertParseError],
           state |-> "parseError", alert |-> AlertParseError]}
    ELSE {[store |-> r.store, dom |-> r.dom,
           state |-> IF r.threw THEN "parseError" ELSE "stored",
           alert |-> IF r.threw THEN AlertParseError ELSE ""] :
             r \in initSchedule(JSONstringify(Events(f.rows, zone)), d)}

\* Lines 65-138: the onload handler on file f, with the slot and the DOM as
\* they are when the read completes. full is whether setItem throws because
\* the storage quota is exceeded. The outcomes: the slot, the DOM, how the
\* upload ended and the alert shown.
onload(f, stored, d, zone, full) ==
    IF ~f.ok
    THEN \* XLSX.read throws: the catch of lines 134-137
         {[store |-> stored, dom |-> d, state |-> "parseError",
           alert |-> AlertParseError]}
    ELSE IF HeaderIndex(f.rows) = 0
    THEN \* lines 77-80
         {[store |-> stored, dom |-> d, state |-> "headerNotFound",
           alert |-> AlertNoHeader]}
    ELSE IF full
    THEN \* line 131 throws: the catch of lines 134-137
         {[store |-> stored, dom |-> d, state |-> "parseError",
           alert |-> AlertParseError]}
    ELSE \* lines 131-133; an exception of initSchedule is caught too
         {[store |-> r.store, dom |-> r.dom,
           state |-> IF r.threw THEN "parseError" ELSE "stored",
           alert |-> IF r.threw THEN AlertParseError ELSE ""] :
             r \in initSchedule(JSONstringify(Events(f.rows, zone)), d)}

\* The read of upload i completes and its onload handler runs.
OnLoad(i, full) ==
    /\ uploads[i].state = "reading"
    /\ \E r \in onload(uploads[i].file, store, dom, tz, full) :
          /\ store' = r.store
          /\ dom' = r.dom
          /\ uploads' = [uploads EXCEPT ![i].state = r.state]
          /\ last' = Ran("onload", r.alert, FALSE)
    /\ UNCHANGED tz
    /\ UNCHANGED swvars

\* Clear without line 46: the button stays.
ClearKeepsButton ==
    /\ dom.replaceBtn # "none"
    /\ store' = NoItem
    /\ dom' = [dom EXCEPT !.controls = "none", !.schedule = EmptyHTML,
                          !.status = StatusUpload]
    /\ last' = Ran("clear", "", FALSE)
    /\ UNCHANGED <<tz, uploads>>
    /\ UNCHANGED swvars

\* Clear without line 44: the grid stays.
ClearKeepsGrid ==
    /\ dom.replaceBtn # "none"
    /\ store' = NoItem
    /\ dom' = [dom EXCEPT !.controls = "none",
                          !.status = StatusUpload, !.replaceBtn = "none"]
    /\ last' = Ran("clear", "", FALSE)
    /\ UNCHANGED <<tz, uploads>>
    /\ UNCHANGED swvars

\* Lines 39-48 with confirm() answered yes. The button can be clicked
\* unless it is hidden.
Clear ==
    /\ dom.replaceBtn # "none"
    /\ store' = NoItem
    /\ dom' = [dom EXCEPT !.controls = "none", !.schedule = EmptyHTML,
                          !.status = StatusUpload, !.replaceBtn = "none"]
    /\ last' = Ran("clear", "", FALSE)
    /\ UNCHANGED <<tz, uploads>>
    /\ UNCHANGED swvars

\* Lines 39-48 with confirm() answered no.
ClearDeclined ==
    /\ dom.replaceBtn # "none"
    /\ last' = Ran("clearDeclined", "", FALSE)
    /\ UNCHANGED <<tz, store, dom, uploads>>
    /\ UNCHANGED swvars

\* Line 205: the user picks another building; onchange runs renderSchedule.
SelectBuilding(i) ==
    /\ dom.controls = "flex"
    /\ i \in 1..Len(dom.buildingSelect)
    /\ i # dom.buildingIdx
    /\ \E r \in renderSchedule(store, [dom EXCEPT !.buildingIdx = i]) :
          /\ dom' = r.dom
          /\ last' = Ran("buildingSelect", "", r.threw)
    /\ UNCHANGED <<tz, store, uploads>>
    /\ UNCHANGED swvars

\* Line 206: the user picks another date; onchange runs renderSchedule.
SelectDate(i) ==
    /\ dom.controls = "flex"
    /\ i \in 1..Len(dom.dateSelect)
    /\ i # dom.dateIdx
    /\ \E r \in renderSchedule(store, [dom EXCEPT !.dateIdx = i]) :
          /\ dom' = r.dom
          /\ last' = Ran("dateSelect", "", r.threw)
    /\ UNCHANGED <<tz, store, uploads>>
    /\ UNCHANGED swvars

\* Lines 21-52: the page is loaded again. The readers of the page before are
\* gone with it; the slot stays.
PageLoad ==
    /\ \E r \in initSchedule(store, StaticPage) :
          /\ store' = r.store
          /\ dom' = r.dom
          /\ last' = Ran("DOMContentLoaded", "", r.threw)
    /\ uploads' = [i \in 1..MaxUploads |->
                      IF uploads[i].state = "reading"
                      THEN [uploads[i] EXCEPT !.state = "abandoned"]
                      ELSE uploads[i]]
    /\ UNCHANGED tz
    /\ UNCHANGED swvars

\* Something else of the same origin (another version of the page, the
\* browser's developer tools) writes the slot: the corrupted stored state
\* lines 165-175 expect.
Tamper(text) ==
    /\ store # text
    /\ store' = text
    /\ last' = Ran("storage", "", FALSE)
    /\ UNCHANGED <<tz, dom, uploads>>
    /\ UNCHANGED swvars

---------------------------------------------------------------------------
(* The service worker: src/service-worker.js                               *)

\* Line 10
CACHE_NAME == "schedule-pwa-v1"

\* The cache name of the deployment before the name was bumped.
OLD_CACHE_NAME == "schedule-pwa-v0"

\* Lines 11-19
ASSETS ==
    {".", "index.html", "style.css", "script.js", "manifest.json",
     "icon-192.png", "icon-512.png"}

\* Fetch events one behaviour has in flight at a time.
MaxFetches == 2

\* What a fetch event is answered with. cache names the cache a cached
\* response was taken from.
Response(kind, url, cache) == [kind |-> kind, url |-> url, cache |-> cache]

\* respondWith settles with undefined: the client gets a network error.
Undefined == Response("undefined", "", "")

\* The event is left to the browser: respondWith is not called.
NotIntercepted == Response("default", "", "")

\* The worker was terminated before it answered.
Terminated == Response("terminated", "", "")

\* caches.keys(). A cache of the CacheStorage is its name and the URLs it
\* holds a response for.
Keys(cs) == {cs[i].name : i \in 1..Len(cs)}

\* caches.open(name): the cache is created when there is none of the name.
Open(cs, name) ==
    IF name \in Keys(cs) THEN cs ELSE Append(cs, [name |-> name, urls |-> {}])

\* caches.delete(name)
Delete(cs, name) == SelectSeq(cs, LAMBDA c : c.name # name)

\* cache.put and cache.addAll on the cache of the name.
Put(cs, name, urls) ==
    [i \in 1..Len(cs) |->
        IF cs[i].name = name THEN [cs[i] EXCEPT !.urls = @ \cup urls] ELSE cs[i]]

\* caches.match(url): the response of the first cache, in creation order,
\* that holds one; undefined when none does.
Match(cs, url) ==
    LET S == {i \in 1..Len(cs) : url \in cs[i].urls}
    IN  IF S = {} THEN Undefined
        ELSE Response("cached", url, cs[CHOOSE i \in S : \A j \in S : i <= j].name)

\* The activate handler comparing with === : it deletes its own cache.
StaleKeysInverted(keys) == {key \in keys : key = CACHE_NAME}

\* Lines 33-38: the caches the activate handler deletes.
StaleKeys(keys) == {key \in keys : key # CACHE_NAME}

\* The requests of the page: navigations, a precached asset, a same-origin
\* resource that is not precached, a script of another origin, and a POST.
Requests ==
    {[method |-> "GET", url |-> ".", mode |-> "navigate", sameOrigin |-> TRUE],
     [method |-> "GET", url |-> "about.html", mode |-> "navigate", sameOrigin |-> TRUE],
     [method |-> "GET", url |-> "style.css", mode |-> "no-cors", sameOrigin |-> TRUE],
     [method |-> "GET", url |-> "data.json", mode |-> "cors", sameOrigin |-> TRUE],
     [method |-> "GET", url |-> "xlsx.full.min.js", mode |-> "no-cors",
      sameOrigin |-> FALSE],
     [method |-> "POST", url |-> "data.json", mode |-> "cors", sameOrigin |-> TRUE]}

\* A fetch event: the worker handling it, the step of the handler's promise
\* chain that is pending, how fetch(request) ended, and the answer. Here
\* none is pending and none has been answered.
Idle ==
    [stage  |-> "idle",
     req    |-> [method |-> "", url |-> "", mode |-> "", sameOrigin |-> FALSE],
     by     |-> "",
     net    |-> "none",
     answer |-> Response("none", "", "")]

\* The registration is a record: old, the old worker (none on a first
\* visit); state, the new worker's state; step, the pending step of its
\* handler; stale, the caches its activate handler has still to delete.

\* The worker a fetch event of the page is dispatched to, "" when none is
\* active. Events for an activating worker wait until it is activated.
ActiveWorker ==
    IF workers.state = "activated" THEN "new"
    ELSE IF workers.old = "active" /\ workers.state # "activating" THEN "old"
    ELSE ""

\* Lines 21-22 and 27: the install event; skipWaiting() is called at once.
InstallEvent ==
    /\ workers.state = "parsed"
    /\ workers' = [workers EXCEPT !.state = "installing", !.step = "open"]
    /\ UNCHANGED <<caches, fetches>>
    /\ UNCHANGED appvars

\* Line 23: caches.open(CACHE_NAME) resolves.
InstallOpened ==
    /\ workers.state = "installing" /\ workers.step = "open"
    /\ caches' = Open(caches, CACHE_NAME)
    /\ workers' = [workers EXCEPT !.step = "addAll"]
    /\ UNCHANGED fetches
    /\ UNCHANGED appvars

\* Line 24: cache.addAll(ASSETS) resolves with every asset stored, or
\* rejects with none stored, and the installation fails.
InstallAdded(ok) ==
    /\ workers.state = "installing" /\ workers.step = "addAll"
    /\ IF ok
       THEN /\ caches' = Put(caches, CACHE_NAME, ASSETS)
            /\ workers' = [workers EXCEPT !.state = "installed", !.step = ""]
       ELSE /\ caches' = caches
            /\ workers' = [workers EXCEPT !.state = "redundant", !.step = ""]
    /\ UNCHANGED fetches
    /\ UNCHANGED appvars

\* src/script.js lines 12-17: the next load of the page registers the worker
\* again after a failed installation.
Register ==
    /\ workers.state = "redundant"
    /\ workers' = [workers EXCEPT !.state = "parsed"]
    /\ UNCHANGED <<caches, fetches>>
    /\ UNCHANGED appvars

\* Lines 30-32: the installed worker does not wait (line 27); the old worker
\* is terminated with the events it is handling, and the activate event is
\* dispatched: caches.keys() is pending.
ActivateEvent ==
    /\ workers.state = "installed"
    /\ workers' = [workers EXCEPT
                      !.state = "activating", !.step = "keys",
                      !.old = IF workers.old = "active" THEN "redundant"
                              ELSE workers.old]
    /\ fetches' = [k \in 1..MaxFetches |->
                      IF fetches[k].stage # "idle"
                      THEN [fetches[k] EXCEPT !.stage = "idle",
                                              !.answer = Terminated]
                      ELSE fetches[k]]
    /\ UNCHANGED caches
    /\ UNCHANGED appvars

\* Lines 32-38: caches.keys() resolves; a delete is started for every key
\* that is not CACHE_NAME.
ActivateKeys ==
    /\ workers.state = "activating" /\ workers.step = "keys"
    /\ workers' = [workers EXCEPT !.step = "delete",
                                  !.stale = StaleKeys(Keys(caches))]
    /\ UNCHANGED <<caches, fetches>>
    /\ UNCHANGED appvars

\* Line 36: one caches.delete(key) resolves.
ActivateDelete(key) ==
    /\ workers.state = "activating" /\ workers.step = "delete"
    /\ key \in workers.stale
    /\ caches' = Delete(caches, key)
    /\ workers' = [workers EXCEPT !.stale = workers.stale \ {key}]
    /\ UNCHANGED fetches
    /\ UNCHANGED appvars

\* Lines 31-42: Promise.all resolves, the handler has completed and the
\* worker is activated.
ActivateDone ==
    /\ workers.state = "activating" /\ workers.step = "delete"
    /\ workers.stale = {}
    /\ workers' = [workers EXCEPT !.state = "activated", !.step = ""]
    /\ UNCHANGED <<caches, fetches>>
    /\ UNCHANGED appvars

\* A handler that asks the network first and the caches when it fails.
onfetchNetworkFirst(req, worker) ==
    IF req.method # "GET"
    THEN [Idle EXCEPT !.req = req, !.by = worker, !.answer = NotIntercepted]
    ELSE [Idle EXCEPT !.req = req, !.by = worker, !.stage = "fetch"]

\* Lines 45-49: the fetch handler up to its first pending promise. A request
\* that is no GET is not answered; for a GET caches.match(request) is pending.
onfetch(req, worker) ==
    IF req.method # "GET"
    THEN [Idle EXCEPT !.req = req, !.by = worker, !.answer = NotIntercepted]
    ELSE [Idle EXCEPT !.req = req, !.by = worker, !.stage = "match"]

\* A fetch event of the page is dispatched to the active worker.
FetchEvent(k, req) ==
    /\ ActiveWorker # ""
    /\ fetches[k].stage = "idle"
    /\ fetches' = [fetches EXCEPT ![k] = onfetch(req, ActiveWorker)]
    /\ UNCHANGED <<caches, workers>>
    /\ UNCHANGED appvars

\* Lines 49-53: caches.match(request) resolves: a cached response is the
\* answer; without one fetch(request) is started.
MatchDone(k) ==
    /\ fetches[k].stage = "match"
    /\ LET cachedResponse == Match(caches, fetches[k].req.url)
       IN  fetches' = [fetches EXCEPT ![k] =
                          IF cachedResponse # Undefined
                          THEN [@ EXCEPT !.stage = "idle", !.answer = cachedResponse]
                          ELSE [@ EXCEPT !.stage = "fetch"]]
    /\ UNCHANGED <<caches, workers>>
    /\ UNCHANGED appvars

\* Lines 54-71: fetch(request) settles. Resolved: a same-origin response is
\* put into the cache once caches.open resolves, another one is the answer.
\* Rejected: for a navigation caches.match('index.html') is started, any
\* other request is answered with undefined.
FetchDone(k, ok) ==
    /\ fetches[k].stage = "fetch"
    /\ LET req == fetches[k].req
       IN  fetches' = [fetches EXCEPT ![k] =
              IF ok
              THEN IF req.sameOrigin
                   THEN [@ EXCEPT !.net = "ok", !.stage = "open"]
                   ELSE [@ EXCEPT !.net = "ok", !.stage = "idle",
                                  !.answer = Response("network", req.url, "")]
              ELSE IF req.mode = "navigate"
                   THEN [@ EXCEPT !.net = "failed", !.stage = "fallback"]
                   ELSE [@ EXCEPT !.net = "failed", !.stage = "idle",
                                  !.answer = Undefined]]
    /\ UNCHANGED <<caches, workers>>
    /\ UNCHANGED appvars

\* Lines 59-62: caches.open(CACHE_NAME) resolves; the response is put into
\* the cache and is the answer. The old worker runs the deployment before
\* the bump, with its cache name.
OpenDone(k) ==
    /\ fetches[k].stage = "open"
    /\ LET name == IF fetches[k].by = "old" THEN OLD_CACHE_NAME ELSE CACHE_NAME
           url  == fetches[k].req.url
       IN  /\ caches' = Put(Open(caches, name), name, {url})
           /\ fetches' = [fetches EXCEPT ![k] =
                             [@ EXCEPT !.stage = "idle",
                                       !.answer = Response("network", url, "")]]
    /\ UNCHANGED workers
    /\ UNCHANGED appvars

\* Lines 68-70: caches.match('index.html') resolves and is the answer.
FallbackDone(k) ==
    /\ fetches[k].stage = "fallback"
    /\ fetches' = [fetches EXCEPT ![k] =
                      [@ EXCEPT !.stage = "idle",
                                !.answer = Match(caches, "index.html")]]
    /\ UNCHANGED <<caches, workers>>
    /\ UNCHANGED appvars

\* No worker registered yet, no cache, no fetch event.
NoWorker ==
    /\ caches = <<>>
    /\ workers = [old |-> "none", state |-> "parsed", step |-> "", stale |-> {}]
    /\ fetches = [k \in 1..MaxFetches |-> Idle]

---------------------------------------------------------------------------
(* Inputs                                                                  *)

\* Timezone offsets of the machine, in minutes east of UTC: UTC-5, UTC, UTC+3.
TZOffsets == {-300, 0, 180}

\* The header row of the template, and a data row under it.
HeaderRow ==
    <<StrCell(LblDate), StrCell(LblStart), StrCell(LblDiscipline),
      StrCell(LblGroup), StrCell(LblBuilding), StrCell(LblRoom)>>

DataRow(date, start, discipline, group, building, room) ==
    <<date, StrCell(start), StrCell(discipline), StrCell(group),
      StrCell(building), StrCell(room)>>

\* A row above the header: the title of the sheet.
TitleRow == <<StrCell(<<"A", "B">>), StrCell(<<>>)>>

T0900 == <<"9", ":", "0", "0">>
T1000 == <<"1", "0", ":", "0", "0">>

\* The workbooks of the application's behaviours: one XLSX.read rejects, one
\* without a header row, one with a header row and no data, and two schedules
\* (the second lists its buildings and dates in descending order).
SheetA ==
    <<HeaderRow,
      DataRow(StrCell(<<"0", "1", ".", "0", "9", ".", "2", "0", "2", "4">>),
              T1000, <<"A">>, <<"a">>, <<"A">>, <<"1">>),
      DataRow(StrCell(<<"0", "1", ".", "0", "9", ".", "2", "0", "2", "4">>),
              T0900, <<"B">>, <<"a">>, <<"A">>, <<"2">>),
      DataRow(StrCell(<<"0", "2", ".", "0", "9", ".", "2", "0", "2", "4">>),
              T0900, <<"A">>, <<"a">>, <<"B">>, <<"1">>)>>

SheetB ==
    <<TitleRow, HeaderRow,
      DataRow(NumCell(45540), T0900, <<"x">>, <<"x">>, <<"B">>, <<"2">>),
      DataRow(StrCell(<<"0", "3", ".", "0", "9", ".", "2", "0", "2", "4">>),
              T1000, <<"y">>, <<"x">>, <<"A">>, <<"2">>)>>

AppFiles ==
    {MalformedFile, File(<<TitleRow>>), File(<<HeaderRow>>),
     File(SheetA), File(SheetB)}

---------------------------------------------------------------------------
(* The application: uploads, clears, selections, page loads                *)

\* The machine of these behaviours is at UTC+3; the ingestion specifications
\* below range over the offsets.
AppTZ == 180

Init ==
    /\ tz = AppTZ
    /\ store = NoItem
    /\ uploads = [i \in 1..MaxUploads |-> NoUpload]
    /\ dom \in {r.dom : r \in initSchedule(NoItem, StaticPage)}
    /\ last = Ran("DOMContentLoaded", "", FALSE)
    /\ NoWorker

Next ==
    \/ \E f \in AppFiles : StartUpload(f)
    \/ \E i \in 1..MaxUploads, full \in BOOLEAN : OnLoad(i, full)
    \/ Clear
    \/ ClearDeclined
    \/ \E i \in 1..Len(dom.buildingSelect) : SelectBuilding(i)
    \/ \E i \in 1..Len(dom.dateSelect) : SelectDate(i)
    \/ PageLoad

Spec == Init /\ [][Next]_vars

\* The application with the selectors left alone: uploads, clears and page
\* loads only.
NextUploads ==
    \/ \E f \in AppFiles : StartUpload(f)
    \/ \E i \in 1..MaxUploads, full \in BOOLEAN : OnLoad(i, full)
    \/ Clear
    \/ ClearDeclined
    \/ PageLoad

SpecUploads == Init /\ [][NextUploads]_vars

\* The application beside a writer that corrupts the slot.
NextCorrupt ==
    \/ Next
    \/ \E text \in CorruptTexts : Tamper(text)

SpecCorrupt == Init /\ [][NextCorrupt]_vars

---------------------------------------------------------------------------
(* The service worker's life: installation, activation, fetch events       *)

\* The page is loaded with no schedule stored. Either it is the first visit
\* (no worker, no cache), or the worker of the deployment before the bump is
\* active and its cache is there, with its assets and a response cached at
\* run time. The new worker has been registered.
InitWorker ==
    /\ tz = AppTZ
    /\ store = NoItem
    /\ uploads = [i \in 1..MaxUploads |-> NoUpload]
    /\ dom \in {r.dom : r \in initSchedule(NoItem, StaticPage)}
    /\ last = Ran("DOMContentLoaded", "", FALSE)
    /\ fetches = [k \in 1..MaxFetches |-> Idle]
    /\ \/ /\ caches = <<>>
          /\ workers = [old |-> "none", state |-> "parsed", step |-> "",
                        stale |-> {}]
       \/ /\ caches = <<[name |-> OLD_CACHE_NAME,
                          urls |-> ASSETS \cup {"data.json"}]>>
          /\ workers = [old |-> "active", state |-> "parsed", step |-> "",
                        stale |-> {}]

NextWorker ==
    \/ InstallEvent
    \/ InstallOpened
    \/ \E ok \in BOOLEAN : InstallAdded(ok)
    \/ Register
    \/ ActivateEvent
    \/ ActivateKeys
    \/ \E key \in Keys(caches) : ActivateDelete(key)
    \/ ActivateDone
    \/ \E k \in 1..MaxFetches, req \in Requests : FetchEvent(k, req)
    \/ \E k \in 1..MaxFetches : MatchDone(k)
    \/ \E k \in 1..MaxFetches, ok \in BOOLEAN : FetchDone(k, ok)
    \/ \E k \in 1..MaxFetches : OpenDone(k)
    \/ \E k \in 1..MaxFetches : FallbackDone(k)

SpecWorker == InitWorker /\ [][NextWorker]_vars

---------------------------------------------------------------------------
(* Ingestion alone: one upload in flight, over workbooks and timezones     *)

\* Data rows under the header of a generated workbook.
MaxRows == 2

\* The largest small day count among the numeric date cells.
MaxSerial == 3

Pad(n, width) == padStart(NatToString(n), width)

\* The text d.m.y or d/m/y, with or without leading zeros.
DMY(d, m, y, sep, padded) ==
    IF padded
    THEN Pad(d, 2) \o <<sep>> \o Pad(m, 2) \o <<sep>> \o Pad(y, 4)
    ELSE NatToString(d) \o <<sep>> \o NatToString(m) \o <<sep>> \o NatToString(y)

\* The canonical text YYYY-MM-DD.
ISO(y, m, d) == Pad(y, 4) \o <<"-">> \o Pad(m, 2) \o <<"-">> \o Pad(d, 2)

\* The calendar dates of the date cells.
CalendarDates ==
    {c \in [y : {24, 1900, 2023, 2024}, m : {1, 2, 3, 9, 12},
            d : {1, 9, 28, 29, 30, 31}] : c.d <= DaysInMonth(c.y, c.m)}

\* The numeric date cells: small day counts and a day of 2024.
SerialDays == (0..MaxSerial) \cup {60, 45536}

DateCells ==
    {NumCell(n) : n \in SerialDays}
    \cup {StrCell(ISO(c.y, c.m, c.d)) : c \in CalendarDates}
    \cup {StrCell(DMY(c.d, c.m, c.y, sep, padded)) :
             c \in CalendarDates, sep \in {".", "/"}, padded \in BOOLEAN}

\* A workbook of one data row with the given date cell.
DateFile(cell) ==
    File(<<HeaderRow, DataRow(cell, T0900, <<"A">>, <<"a">>, <<"A">>, <<"1">>)>>)

\* Rows of a generated workbook: a data row for each kind of date cell (the
\* empty string, 0, a day count, a date text, a text that is no date), a
\* second header row and an empty row.
IngestRows ==
    {DataRow(c, T0900, <<"A">>, <<"a">>, <<"A">>, <<"1">>) :
        c \in {StrCell(<<>>), NumCell(0), NumCell(2), StrCell(<<"x">>),
               StrCell(<<"0", "1", ".", "0", "9", ".", "2", "0", "2", "4">>)}}
    \cup {HeaderRow, <<>>}

\* What may stand above the header row: nothing, a title, a data row.
Preambles ==
    {<<>>, <<TitleRow>>,
     <<DataRow(NumCell(2), T1000, <<"B">>, <<"a">>, <<"B">>, <<"2">>)>>}

RowFiles ==
    {File(pre \o <<HeaderRow>> \o rows) :
        pre \in Preambles,
        rows \in UNION {[1..n -> IngestRows] : n \in 0..MaxRows}}

IngestFiles == RowFiles \cup {DateFile(c) : c \in DateCells}

InitIngest ==
    /\ tz \in TZOffsets
    /\ store = NoItem
    /\ dom \in {r.dom : r \in initSchedule(NoItem, StaticPage)}
    /\ \E f \in IngestFiles :
          uploads = [i \in 1..MaxUploads |->
                        IF i = 1 THEN [state |-> "reading", file |-> f]
                        ELSE NoUpload]
    /\ last = Ran("change", "", FALSE)
    /\ NoWorker

NextIngest == \E full \in BOOLEAN : OnLoad(1, full)

SpecIngest == InitIngest /\ [][NextIngest]_vars

---------------------------------------------------------------------------
(* Ingestion of workbooks whose header row repeats a label                 *)

\* The header row of the template with one more column, labelled like an
\* earlier one (as it is, or padded with blanks).
RepeatedHeaders ==
    {HeaderRow \o <<StrCell(l)>> :
        l \in {LblDate, <<" ">> \o LblDate \o <<" ">>, LblStart, LblRoom}}

\* A data row under such a header: its date cell, and what it holds in the
\* added column (nothing, the empty string, a number, a text).
RepeatedRows ==
    {DataRow(c, T0900, <<"A">>, <<"a">>, <<"A">>, <<"1">>) \o x :
        c \in {StrCell(<<>>),
               StrCell(<<"0", "1", ".", "0", "9", ".", "2", "0", "2", "4">>)},
        x \in {<<>>, <<StrCell(<<>>)>>, <<NumCell(2)>>,
               <<StrCell(<<"0", "2", ".", "0", "9", ".", "2", "0", "2", "4">>)>>}}

RepeatedFiles == {File(<<h, r>>) : h \in RepeatedHeaders, r \in RepeatedRows}

InitHeaders ==
    /\ tz \in TZOffsets
    /\ store = NoItem
    /\ dom \in {r.dom : r \in initSchedule(NoItem, StaticPage)}
    /\ \E f \in RepeatedFiles :
          uploads = [i \in 1..MaxUploads |->
                        IF i = 1 THEN [state |-> "reading", file |-> f]
                        ELSE NoUpload]
    /\ last = Ran("change", "", FALSE)
    /\ NoWorker

SpecHeaders == InitHeaders /\ [][NextIngest]_vars

---------------------------------------------------------------------------
(* The view: one schedule uploaded, shown and browsed                      *)

\* Data rows of an uploaded schedule.
MaxEvents == 3

\* The k-th data row of a schedule: its discipline names its position.
ScheduleRow(k, building, start, room) ==
    DataRow(StrCell(<<"0", "1", ".", "0", "9", ".", "2", "0", "2", "4">>),
            start, <<"<", DigitChar(k), ">">>, <<"a", "&", "'">>, building, room)

RowChoices ==
    [building : {<<"A">>, <<"B", "&">>},
     start    : {T0900, T1000, <<>>},
     room     : {<<"1">>, <<"<", "2", ">">>}]

ScheduleFiles ==
    {File(<<HeaderRow>> \o
          [k \in DOMAIN c |-> ScheduleRow(k, c[k].building, c[k].start, c[k].room)]) :
        c \in UNION {[1..n -> RowChoices] : n \in 1..MaxEvents}}

InitRender ==
    /\ tz = AppTZ
    /\ store = NoItem
    /\ dom \in {r.dom : r \in initSchedule(NoItem, StaticPage)}
    /\ \E f \in ScheduleFiles :
          uploads = [i \in 1..MaxUploads |->
                        IF i = 1 THEN [state |-> "reading", file |-> f]
                        ELSE NoUpload]
    /\ last = Ran("change", "", FALSE)
    /\ NoWorker

NextRender ==
    \/ \E full \in BOOLEAN : OnLoad(1, full)
    \/ \E i \in 1..Len(dom.buildingSelect) : SelectBuilding(i)

SpecRender == InitRender /\ [][NextRender]_vars

---------------------------------------------------------------------------
(* Properties                                                              *)

Populated(stored) == stored.kind = "array" /\ stored.items # <<>>

\* C1: an upload whose ingestion fails (header row not found, or an
\* exception in the onload handler) leaves the slot exactly as it was.
C1_FailedIngestionLeavesStore ==
    [][\A i \in 1..MaxUploads :
          (/\ uploads[i].state = "reading"
           /\ uploads'[i].state \in {"headerNotFound", "parseError"})
          => store' = store]_vars

\* An ingestion has just failed while a schedule was stored.
C1_Witness ==
    /\ last.handler = "onload"
    /\ last.alert \in {AlertNoHeader, AlertParseError}
    /\ Populated(store)

\* The four parts of the UI the empty state sets.
EmptyStateOf(d) ==
    [status |-> d.status, controls |-> d.controls,
     replaceBtn |-> d.replaceBtn, schedule |-> d.schedule]

\* C4: after a confirmed clear the slot is absent, a load finds it absent and
\* changes nothing, and the UI is the empty state initSchedule gives a page
\* whose slot is absent.
C4_ClearGivesInitialEmptyState ==
    last.handler = "clear" =>
        /\ store = NoItem
        /\ \A r \in initSchedule(store, dom) :
              r.store = NoItem /\ r.dom = dom /\ ~r.threw
        /\ \A r \in initSchedule(NoItem, StaticPage) :
              EmptyStateOf(dom) = EmptyStateOf(r.dom)

\* A schedule was uploaded and shown, and has just been cleared.
C4_Witness ==
    /\ last.handler = "clear"
    /\ \E i \in 1..MaxUploads : uploads[i].state = "stored"
    /\ dom.buildingSelect # <<>>

\* The entries the ingestion of upload i produces.
EntriesOf(i) ==
    LET f == uploads[i].file
    IN  IF f.ok /\ HeaderIndex(f.rows) # 0 THEN Events(f.rows, tz) ELSE <<>>

\* The entries of upload i that are no entries of upload j.
OldEntries(i, j) ==
    LET ei == EntriesOf(i)
        ej == EntriesOf(j)
    IN  {ei[k] : k \in 1..Len(ei)} \ {ej[m] : m \in 1..Len(ej)}

\* The slot holds one of the entries.
HoldsAny(stored, entries) ==
    /\ stored.kind = "array"
    /\ \E m \in 1..Len(stored.items) : stored.items[m] \in entries

\* C2 as claimed: once the entries of a later upload j have been stored, the
\* slot holds no entry of an earlier upload i, until another upload is
\* started, in whatever order the reads complete.
C2_OldEntriesNeverReappear ==
    \A i, j \in 1..MaxUploads :
        (/\ i < j
         /\ uploads[j].state = "stored"
         /\ \A k \in (j + 1)..MaxUploads : uploads[k].state = "none")
        => ~HoldsAny(store, OldEntries(i, j))

\* C2 as amended: when the entries of a later upload j are stored while no
\* read of an upload started before it is still in flight, the slot holds no
\* entry of an earlier upload i from then on, until another upload is started.
C2_ReplacesWhenEarlierReadsAreOver ==
    [][\A i, j \in 1..MaxUploads :
          (/\ i < j
           /\ uploads'[j].state = "stored"
           /\ \A h \in 1..(j - 1) : uploads[h].state # "reading"
           /\ \A k \in (j + 1)..MaxUploads : uploads'[k].state = "none")
          => LET old == OldEntries(i, j)
             IN  (uploads[j].state = "reading" \/ ~HoldsAny(store, old))
                 => ~HoldsAny(store', old)]_vars

\* Two different schedules were stored one after the other and the slot holds
\* the second.
C2_Witness ==
    /\ uploads[1].state = "stored"
    /\ uploads[2].state = "stored"
    /\ EntriesOf(1) # <<>>
    /\ EntriesOf(2) # <<>>
    /\ EntriesOf(1) # EntriesOf(2)
    /\ store = JSONstringify(EntriesOf(2))

\* The slot holds a text that is no serialized entry list.
Corrupt(stored) == stored \in CorruptTexts

\* C3 as claimed: whenever initSchedule or renderSchedule loads a slot whose
\* text is no serialized entry list, the slot is removed, the upload prompt is
\* shown with the controls hidden, and no exception leaves the function.
C3_CorruptSlotIsClearedOnLoad ==
    [][(/\ Corrupt(store)
        /\ last'.handler \in {"DOMContentLoaded", "buildingSelect", "dateSelect"})
       => (/\ store' = NoItem
           /\ dom'.status = StatusUpload
           /\ dom'.controls = "none"
           /\ ~last'.threw)]_vars

\* A character reference of escapeHtml starts at position i of the text.
EntityAt(m, i) ==
    \E e \in {EntAmp, EntLt, EntGt, EntQuot, EntApos} :
        i + Len(e) - 1 <= Len(m) /\ SubSeq(m, i, i + Len(e) - 1) = e

\* The text holds no raw HTML metacharacter.
SafeText(m) ==
    \A i \in 1..Len(m) :
        /\ m[i] \notin {"<", ">", "\"", "'"}
        /\ m[i] = "&" => EntityAt(m, i)

\* C5 as claimed: no text inserted into the markup (option values and labels,
\* room headers, start times, disciplines and groups) holds a raw HTML
\* metacharacter.
C5_InsertedTextIsEscaped ==
    /\ \A i \in 1..Len(dom.buildingSelect) :
          SafeText(dom.buildingSelect[i].value) /\ SafeText(dom.buildingSelect[i].label)
    /\ \A i \in 1..Len(dom.dateSelect) :
          SafeText(dom.dateSelect[i].value) /\ SafeText(dom.dateSelect[i].label)
    /\ \A j \in 1..Len(dom.schedule.th) : SafeText(dom.schedule.th[j])
    /\ \A i \in 1..Len(dom.schedule.rows) :
          /\ SafeText(dom.schedule.rows[i].time)
          /\ \A j \in 1..Len(dom.schedule.rows[i].cells) :
                /\ SafeText(dom.schedule.rows[i].cells[j].subject)
                /\ SafeText(dom.schedule.rows[i].cells[j].group)

\* The column of the header row that carries the label, when one does.
ColumnOf(headerRow, label) ==
    CHOOSE i \in 1..Len(headerRow) : headerRow[i] = StrCell(label)

\* The date cell of the row is not empty: a number, or a string with text.
HasDate(row, headerRow) ==
    LET c == ColumnOf(headerRow, LblDate)
    IN  /\ c <= Len(row)
        /\ row[c].t = "number" \/ row[c].s # <<>>

\* The rows from row i on that have a date, in row order.
RECURSIVE DatedRows(_, _, _)
DatedRows(rows, i, headerRow) ==
    IF i > Len(rows) THEN <<>>
    ELSE (IF HasDate(rows[i], headerRow) THEN <<rows[i]>> ELSE <<>>)
         \o DatedRows(rows, i + 1, headerRow)

\* C6 as claimed: a stored ingestion holds exactly one entry for each row
\* after the first header row whose date cell is not empty (a 0 and a text
\* that is no date included), in row order, and nothing else.
C6_OneEntryPerDatedRow ==
    uploads[1].state = "stored" =>
        LET rows == uploads[1].file.rows
            h    == CHOOSE i \in 1..Len(rows) :
                        /\ IsHeaderRow(rows[i])
                        /\ \A j \in 1..(i - 1) : ~IsHeaderRow(rows[j])
            kept == DatedRows(rows, h + 1, rows[h])
        IN  /\ store.kind = "array"
            /\ Len(store.items) = Len(kept)
            /\ \A k \in 1..Len(kept) :
                  store.items[k] = EventOfRow(kept[k], rows[h], tz)

\* C7 as claimed: a date cell holding the canonical text YYYY-MM-DD of a valid
\* calendar date is normalized to that same text, at every timezone offset.
C7_CanonicalDateIsKept ==
    \A c \in CalendarDates :
        (/\ uploads[1].state = "stored"
         /\ uploads[1].file = DateFile(StrCell(ISO(c.y, c.m, c.d))))
        => /\ Len(store.items) = 1
           /\ store.items[1].date = ISO(c.y, c.m, c.d)

\* The canonical text of the calendar date n days after 1899-12-30.
DaysAfterEpoch(n) ==
    LET c == CivilFromDays(DaysFromCivil(1899, 12, 30) + n)
    IN  ISO(c.y, c.m, c.d)

\* C8 as claimed: a numeric date cell n is normalized to the calendar date
\* n days after 1899-12-30, at every timezone offset.
C8_SerialIsDaysAfterEpoch ==
    \A n \in SerialDays \ {0} :
        (/\ uploads[1].state = "stored"
         /\ uploads[1].file = DateFile(NumCell(n)))
        => /\ Len(store.items) = 1
           /\ store.items[1].date = DaysAfterEpoch(n)

\* C9 as claimed: a date cell holding d.m.y or d/m/y of a valid calendar date
\* is normalized to y-m-d, padded to 4, 2 and 2 digits.
C9_DayMonthYearIsReordered ==
    \A c \in CalendarDates, sep \in {".", "/"}, padded \in BOOLEAN :
        (/\ uploads[1].state = "stored"
         /\ uploads[1].file = DateFile(StrCell(DMY(c.d, c.m, c.y, sep, padded))))
        => /\ Len(store.items) = 1
           /\ store.items[1].date = ISO(c.y, c.m, c.d)

\* The stored entries that match the selected building and date.
Matching ==
    DailyEvents(store.items,
                SelectValue(dom.buildingSelect, dom.buildingIdx),
                SelectValue(dom.dateSelect, dom.dateIdx))

\* The start has the form hours:minutes, both numbers.
Parses(start) == ~TimeMinutes(start).nan

\* The rows of the grid are the distinct start values of the matching entries,
\* every two rows whose starts have minutes stand in ascending order of their
\* minutes since midnight, and the row labels are 1..k.
RowsAscend ==
    LET rows == dom.schedule.rows
    IN  /\ {rows[i].time : i \in 1..Len(rows)}
              = {Matching[k].start : k \in 1..Len(Matching)}
        /\ \A i, j \in 1..Len(rows) : i # j => rows[i].time # rows[j].time
        /\ \A i, j \in 1..Len(rows) :
              (i < j /\ Parses(rows[i].time) /\ Parses(rows[j].time))
              => TimeMinutes(rows[i].time).v <= TimeMinutes(rows[j].time).v
        /\ \A i \in 1..Len(rows) : rows[i].label = NumToString(Num(i))

\* C10 as claimed: for every selection with a matching entry the rows are in
\* ascending order of minutes since midnight and labelled 1..k.
C10_RowsAscendByMinutes ==
    (Populated(store) /\ Matching # <<>>) => RowsAscend

\* C11: an upload whose ingestion succeeds with no entry raises no alert,
\* stores the empty list and shows the 'no data' status, which is neither the
\* upload prompt nor the header-not-found alert.
C11_EmptyIngestionIsNoData ==
    [][\A i \in 1..MaxUploads :
          (/\ uploads[i].state = "reading"
           /\ uploads'[i].state = "stored"
           /\ EntriesOf(i) = <<>>)
          => (/\ last'.alert = ""
              /\ store' = JSONstringify(<<>>)
              /\ dom'.status = StatusNoData
              /\ dom'.status \notin {StatusUpload, AlertNoHeader, AlertParseError})]_vars

\* A workbook with a header row and no dated row has just been ingested over
\* a stored schedule.
C11_Witness ==
    /\ last.handler = "onload"
    /\ last.alert = ""
    /\ store = JSONstringify(<<>>)
    /\ dom.status = StatusNoData
    /\ \E i, j \in 1..MaxUploads :
          /\ uploads[i].state = "stored" /\ EntriesOf(i) # <<>>
          /\ uploads[j].state = "stored" /\ EntriesOf(j) = <<>>

\* The cell is a label: a string that is not blank.
IsLabel(c) == c.t = "string" /\ Len(Trim(c.s)) > 0

\* The header row with every label blanked that stands, trimmed, in an
\* earlier column too: each label is left in its leftmost column only.
LeftmostOnly(headerRow) ==
    [i \in 1..Len(headerRow) |->
        IF /\ IsLabel(headerRow[i])
           /\ \E j \in 1..(i - 1) :
                 IsLabel(headerRow[j]) /\ Trim(headerRow[j].s) = Trim(headerRow[i].s)
        THEN StrCell(<<>>) ELSE headerRow[i]]

\* The same, each label left in its rightmost column only.
RightmostOnly(headerRow) ==
    [i \in 1..Len(headerRow) |->
        IF /\ IsLabel(headerRow[i])
           /\ \E j \in (i + 1)..Len(headerRow) :
                 IsLabel(headerRow[j]) /\ Trim(headerRow[j].s) = Trim(headerRow[i].s)
        THEN StrCell(<<>>) ELSE headerRow[i]]

\* C14 as claimed: the stored entries are those the workbook gives when every
\* repeated label counts in its leftmost column only, for the fields and for
\* the rows kept.
C14_LeftmostColumnWins ==
    uploads[1].state = "stored" =>
        LET rows == uploads[1].file.rows
            h    == HeaderIndex(rows)
        IN  store = JSONstringify(EventsFrom(rows, h + 1, LeftmostOnly(rows[h]), tz))

\* C14 as amended: the stored entries are those the workbook gives when every
\* repeated label counts in its rightmost column only.
C14_RightmostColumnWins ==
    uploads[1].state = "stored" =>
        LET rows == uploads[1].file.rows
            h    == HeaderIndex(rows)
        IN  store = JSONstringify(EventsFrom(rows, h + 1, RightmostOnly(rows[h]), tz))

\* A workbook whose two date columns disagree has been ingested: the row has
\* no date in the left one and a date in the right one, and is kept.
C14_Witness ==
    /\ uploads[1].state = "stored"
    /\ LET rows == uploads[1].file.rows
           hr   == rows[HeaderIndex(rows)]
       IN  /\ hr[1] = StrCell(LblDate) /\ hr[7] = StrCell(LblDate)
           /\ rows[2][1] = StrCell(<<>>)
           /\ Len(rows[2]) = 7 /\ Truthy(rows[2][7])
    /\ Populated(store)

\* The positions among the entries of those in the room at the start.
EntriesAt(entries, room, start) ==
    {k \in 1..Len(entries) :
        entries[k].room = room /\ entries[k].start = start}

\* C15: in a grid, the cell of row i and column j is the 'free' cell when no
\* matching entry has the column's room and the row's start, and otherwise
\* shows the discipline and group of the first such entry in stored order.
C15_CellShowsFirstMatch ==
    (Populated(store) /\ dom.schedule.kind = "table") =>
        LET matching == Matching
        IN  \A i \in 1..Len(dom.schedule.rows), j \in 1..Len(dom.schedule.th) :
                LET S    == EntriesAt(matching, dom.schedule.th[j],
                                      dom.schedule.rows[i].time)
                    cell == dom.schedule.rows[i].cells[j]
                IN  IF S = {} THEN cell = FreeCell
                    ELSE LET first == matching[CHOOSE k \in S : \A m \in S : k <= m]
                         IN  /\ cell.class = "occupied"
                             /\ cell.subject = escapeHtml(first.discipline)
                             /\ cell.group = escapeHtml(first.group)

\* A grid with a free cell and with a cell for which two entries of different
\* disciplines compete.
C15_Witness ==
    /\ Populated(store)
    /\ dom.schedule.kind = "table"
    /\ \E i \in 1..Len(dom.schedule.rows), j \in 1..Len(dom.schedule.th) :
          dom.schedule.rows[i].cells[j] = FreeCell
    /\ LET matching == Matching
       IN  \E i \in 1..Len(dom.schedule.rows), j \in 1..Len(dom.schedule.th) :
              \E k, m \in EntriesAt(matching, dom.schedule.th[j],
                                    dom.schedule.rows[i].time) :
                  k < m /\ matching[k].discipline # matching[m].discipline

\* The values of the options of a selector, as the browser reads them.
OptionValues(options) == [i \in 1..Len(options) |-> AttrValue(options[i].value)]

\* The texts are in ascending lexicographic order, none twice.
Ascending(texts) ==
    \A i, j \in 1..Len(texts) : i < j => LexLess(texts[i], texts[j])

\* C16: while the selectors are visible and the user has not touched them,
\* their options are the distinct buildings and the distinct dates of the
\* stored entries in ascending lexicographic order, the first option of each
\* is selected, and the grid is that of the stored entries of that building
\* and date: their rooms as columns and their starts as rows, or the 'no
\* classes' text when there is none.
C16_ViewReflectsStore ==
    dom.controls = "flex" =>
        LET bs == OptionValues(dom.buildingSelect)
            ds == OptionValues(dom.dateSelect)
        IN  /\ Populated(store)
            /\ {bs[i] : i \in 1..Len(bs)}
                   = {store.items[k].building : k \in 1..Len(store.items)}
            /\ {ds[i] : i \in 1..Len(ds)}
                   = {store.items[k].date : k \in 1..Len(store.items)}
            /\ Ascending(bs) /\ Ascending(ds)
            /\ dom.buildingIdx = 1 /\ dom.dateIdx = 1
            /\ IF Matching = <<>> THEN dom.schedule = NoClassesHTML
               ELSE /\ dom.schedule.kind = "table"
                    /\ dom.schedule.th = Rooms(Matching)
                    /\ {dom.schedule.rows[i].time : i \in 1..Len(dom.schedule.rows)}
                           = {Matching[k].start : k \in 1..Len(Matching)}
                    /\ \A i \in 1..Len(dom.schedule.rows) :
                          \A j \in 1..Len(dom.schedule.th) :
                             dom.schedule.rows[i].cells[j]
                                = GridCell(Matching, dom.schedule.th[j],
                                           dom.schedule.rows[i].time)

\* A second schedule was stored after a first, different one, and is shown.
C16_Witness ==
    /\ dom.controls = "flex"
    /\ \E i, j \in 1..MaxUploads :
          /\ i # j
          /\ uploads[i].state = "stored" /\ uploads[j].state = "stored"
          /\ Populated(JSONstringify(EntriesOf(i)))
          /\ EntriesOf(i) # EntriesOf(j)
          /\ store = JSONstringify(EntriesOf(j))
          /\ store # JSONstringify(EntriesOf(i))
    /\ last.handler = "onload"

\* C17: the slot is absent or holds the whole entry list of one upload whose
\* ingestion has completed.
C17_SlotHoldsOneIngestion ==
    \/ store = NoItem
    \/ \E i \in 1..MaxUploads :
          /\ uploads[i].state = "stored"
          /\ store = JSONstringify(EntriesOf(i))

\* Two schedules of several entries were stored, and the slot holds the one
\* started first, whole.
C17_Witness ==
    /\ uploads[1].state = "stored"
    /\ uploads[2].state = "stored"
    /\ Len(EntriesOf(1)) > 1
    /\ Len(EntriesOf(2)) > 1
    /\ EntriesOf(1) # EntriesOf(2)
    /\ store = JSONstringify(EntriesOf(1))
    /\ last.handler = "onload"

\* The slot is absent and the UI is in the empty state.
Cleared(stored, d) ==
    /\ stored = NoItem
    /\ EmptyStateOf(d) = [status |-> StatusUpload, controls |-> "none",
                          replaceBtn |-> "none", schedule |-> EmptyHTML]

\* C18 as claimed, for the file read that completes right after a confirmed
\* clear (its upload was started before the clear): the slot stays absent
\* and the UI stays in the empty state.
C18_ReadInFlightDoesNotRepopulate ==
    [][(last.handler = "clear" /\ last'.handler = "onload")
       => Cleared(store', dom')]_vars

\* C18 as amended: once the slot is absent and the UI in the empty state,
\* they stay so through every step that is not the successful completion of
\* a file read.
C18_ClearedUntilAReadCompletes ==
    [][(/\ Cleared(store, dom)
        /\ ~(last'.handler = "onload" /\ last'.alert = ""))
       => Cleared(store', dom')]_vars

\* A schedule was stored and cleared, and a file read that failed after the
\* clear has left the slot absent and the UI empty.
C18_Witness ==
    /\ Cleared(store, dom)
    /\ last.handler = "onload"
    /\ last.alert # ""
    /\ \E i \in 1..MaxUploads : uploads[i].state = "stored" /\ EntriesOf(i) # <<>>

\* C19: after every handler the selector controls are visible exactly when
\* the slot holds a non-empty entry list, and so is the replace button.
C19_ControlsVisibleIffPopulated ==
    /\ (dom.controls # "none") <=> Populated(store)
    /\ (dom.replaceBtn # "none") <=> Populated(store)
    /\ Populated(store) => (dom.controls = "flex" /\ dom.replaceBtn = "inline-block")

\* The user has declined to clear a stored schedule: the button is still
\* there.
C19_Witness ==
    /\ last.handler = "clearDeclined"
    /\ Populated(store)
    /\ dom.replaceBtn = "inline-block"
    /\ dom.controls = "flex"

\* Fetch event k is answered in this step by the worker's handler.
Answers(k) ==
    /\ fetches[k].stage # "idle"
    /\ fetches'[k].stage = "idle"
    /\ fetches'[k].answer # Terminated

\* Some cache holds a response for the URL.
Cached(cs, url) == \E i \in 1..Len(cs) : url \in cs[i].urls

\* C12: a request that is no GET is not intercepted. A GET for which some
\* cache holds a match when caches.match resolves is answered with that
\* cached response and the network is not contacted; any other GET goes to
\* the network, and is answered with the network's response when the fetch
\* succeeds and, when it fails for a navigation, with the cached index.html.
C12_CacheFirstNetworkFallback ==
    [][\A k \in 1..MaxFetches :
          LET f == fetches[k]
              g == fetches'[k]
          IN  /\ (f.stage = "idle" /\ g # f)
                 => IF g.req.method = "GET"
                    THEN g.stage = "match" /\ g.net = "none"
                    ELSE g.stage = "idle" /\ g.answer = NotIntercepted
              /\ (f.stage = "match" /\ g # f /\ g.answer # Terminated)
                 => IF Cached(caches, f.req.url)
                    THEN /\ Answers(k)
                         /\ g.answer.kind = "cached"
                         /\ g.answer.url = f.req.url
                         /\ g.answer.cache \in Keys(caches)
                         /\ g.net = "none"
                    ELSE g.stage = "fetch"
              /\ (Answers(k) /\ g.net = "ok")
                 => g.answer = Response("network", f.req.url, "")
              /\ (Answers(k) /\ g.net = "failed" /\ f.req.mode = "navigate")
                 => /\ g.answer.kind = "cached"
                    /\ g.answer.url = "index.html"]_vars

\* A navigation to a page no cache holds has failed on the network and has
\* been answered with the cached index.html, while another request has been
\* answered from a cache without the network.
C12_Witness ==
    /\ \E k \in 1..MaxFetches :
          /\ fetches[k].stage = "idle"
          /\ fetches[k].req.mode = "navigate"
          /\ fetches[k].net = "failed"
          /\ fetches[k].answer.kind = "cached"
          /\ fetches[k].answer.url = "index.html"
    /\ \E k \in 1..MaxFetches :
          /\ fetches[k].stage = "idle"
          /\ fetches[k].net = "none"
          /\ fetches[k].answer.kind = "cached"
          /\ fetches[k].answer.url = fetches[k].req.url

\* C13: once the activate handler of the worker with the new CACHE_NAME has
\* completed, every cache has that name, and every fetch event answered from
\* a cache is answered from the cache of that name.
C13_OnlyCurrentCacheAfterActivation ==
    [][workers'.state = "activated"
       => /\ Keys(caches') \subseteq {CACHE_NAME}
          /\ \A k \in 1..MaxFetches :
                (Answers(k) /\ fetches'[k].answer.kind = "cached")
                => fetches'[k].answer.cache = CACHE_NAME]_vars

\* The new worker has replaced the old one, whose cache held data.json, and
\* has answered a request for data.json from its own cache.
C13_Witness ==
    /\ workers.state = "activated"
    /\ workers.old = "redundant"
    /\ \E k \in 1..MaxFetches :
          /\ fetches[k].by = "new"
          /\ fetches[k].stage = "idle"
          /\ fetches[k].answer = Response("cached", "data.json", CACHE_NAME)

===========================================================================
